---------------------------- MODULE Spec2Model ----------------------------
(***************************************************************************)
(* Model of the three scripts of contributors-spotlight:                   *)
(*   scripts/get_org_contributors_info.py  ("org")                         *)
(*   scripts/fetch_vip_contributors.py     ("fetch_vip", keyed output)     *)
(*   scripts/get_vip_contributors.py       ("get_vip", list output)        *)
(* One behaviour is one run of one script against one remote world.        *)
(***************************************************************************)
EXTENDS Integers, Sequences, FiniteSets, TLC

VARIABLES
    script,            \* which script runs
    pc,                \* position of the run in the script
    exit_status,       \* "running" | "zero" | "nonzero"
    error,             \* the exception that ended the run, and where
    prior_file,        \* output file as it was when the run started
    file,              \* output file on disk
    network_calls,     \* remote calls issued so far, in order
    payload,           \* fetch_vip/get_vip: `data`, the decoded response
    filtered_data,     \* fetch_vip/get_vip: `filtered_data`
    GITHUB_TOKEN,      \* org: environment value
    ORG_NAME,          \* org: environment value
    github_client,     \* org: TRUE once Github(GITHUB_TOKEN) is constructed
    remote_repos,      \* org: the organization's public repositories (remote)
    public_members,    \* org: `public_members`
    public_repos,      \* org: `public_repos`
    repo_idx,          \* org: index of `repo` in the scanned slice
    contributors,      \* org: repo.get_contributors() of the current repo
    contributor_idx,   \* org: index of `contributor` in `contributors`
    contributors_info, \* org: dict login -> ContributorInfo, insertion ordered
    window_commits,    \* org: commit counts the remote returned, per login
    result             \* org: the list returned by get_org_contributors_info

vars == << script, pc, exit_status, error, prior_file, file, network_calls, payload,
           filtered_data, GITHUB_TOKEN, ORG_NAME, github_client, remote_repos,
           public_members, public_repos, repo_idx, contributors,
           contributor_idx, contributors_info, window_commits, result >>

vipVars == << payload, filtered_data >>

orgVars == << GITHUB_TOKEN, ORG_NAME, github_client, remote_repos,
              public_members, public_repos, repo_idx, contributors,
              contributor_idx, contributors_info, window_commits, result >>

-----------------------------------------------------------------------------
(* Bounds of the model. *)

MaxItems == 2      \* records in the explorer payload
MaxRepos == 2      \* public repositories of the organization
MaxRecords == 2    \* contributor records over all repositories together

-----------------------------------------------------------------------------
(* Python / JSON values.  A string is a sequence of characters. *)

JNull == [t |-> "null"]
JStr(s) == [t |-> "str", s |-> s]
JNum(n) == [t |-> "num", n |-> n]

\* Python truthiness of None, str and int.
Truthy(v) ==
    CASE v.t = "null" -> FALSE
      [] v.t = "str" -> v.s # << >>
      [] v.t = "num" -> v.n # 0
      [] OTHER -> TRUE

IsSpace(c) == c = " "

RECURSIVE LStrip(_)
LStrip(s) ==
    IF s = << >> THEN << >>
    ELSE IF IsSpace(Head(s)) THEN LStrip(Tail(s)) ELSE s

RECURSIVE RStrip(_)
RStrip(s) ==
    IF s = << >> THEN << >>
    ELSE IF IsSpace(s[Len(s)]) THEN RStrip(SubSeq(s, 1, Len(s) - 1)) ELSE s

\* str.strip()
Strip(s) == RStrip(LStrip(s))

\* str(x) as an f-string renders it.
PyStr(v) ==
    CASE v.t = "null" -> "None"
      [] v.t = "num" -> ToString(v.n)
      [] OTHER -> "?"

\* dict[key] = value on an insertion-ordered dict of [key, value] entries.
DictSet(d, k, v) ==
    IF \E i \in 1..Len(d) : d[i].key = k
    THEN [i \in 1..Len(d) |-> IF d[i].key = k THEN [key |-> k, value |-> v] ELSE d[i]]
    ELSE Append(d, [key |-> k, value |-> v])

\* key in dict
DictHas(d, k) == \E i \in 1..Len(d) : d[i].key = k

\* dict[key]
DictGet(d, k) == d[CHOOSE i \in 1..Len(d) : d[i].key = k].value

-----------------------------------------------------------------------------
(* The output file. *)

FileAbsent == [kind |-> "absent", data |-> << >>]
FilePrior == [kind |-> "prior", data |-> << >>]
FileTruncated == [kind |-> "truncated", data |-> << >>]
FileJson(d) == [kind |-> "json", data |-> d]

-----------------------------------------------------------------------------
(* The explorer endpoint (Remote Data Source B) and the two VIP scripts. *)

\* A key the profile object does not have.
Missing == [t |-> "missing"]
JDict(g, i, n) == [t |-> "dict", github |-> g, id |-> i, name |-> n]

GithubValues ==
    { Missing, JNull, JStr(<< >>), JStr(<< " " >>), JStr(<< "a" >>),
      JStr(<< " ", "b" >>) }
IdValues == { Missing, JNum(1) }
NameValues == { Missing, JNull, JStr(<< "A" >>) }

ProfileObjects ==
    { JDict(g, i, n) : g \in GithubValues, i \in IdValues, n \in NameValues }

ArrayPayloads ==
    { [t |-> "array", elems |-> e] :
        e \in UNION { [1..n -> ProfileObjects] : n \in 0..MaxItems } }

\* What the endpoint can answer besides an array: an object (only its keys
\* matter to the scripts), a string, a number or null.
OtherPayloads ==
    { [t |-> "object", keys |-> << >>],
      [t |-> "object", keys |-> << << "e", "r", "r" >> >>],
      JStr(<< >>), JStr(<< "a" >>), JNum(5), JNull }

Payloads == ArrayPayloads \cup OtherPayloads

\* isinstance(data, list)
IsList(v) == v.t = "array"

\* `for item in data`: the items the iteration yields, or a TypeError.
Iterate(v) ==
    CASE v.t = "array" -> [ok |-> TRUE, elems |-> v.elems]
      [] v.t = "object" ->
            [ok |-> TRUE, elems |-> [i \in 1..Len(v.keys) |-> JStr(v.keys[i])]]
      [] v.t = "str" ->
            [ok |-> TRUE, elems |-> [i \in 1..Len(v.s) |-> JStr(<< v.s[i] >>)]]
      [] OTHER -> [ok |-> FALSE, elems |-> << >>]

\* item.get(key)
ItemGet(item, key) ==
    IF item[key] = Missing THEN JNull ELSE item[key]

\* KeepItem without the strip(): a whitespace-only handle is kept.
KeepItemNoStrip(item) ==
    IF item.t # "dict" THEN "error"
    ELSE IF ~Truthy(ItemGet(item, "github")) THEN "drop"
    ELSE IF item.github.t # "str" THEN "error"
    ELSE "keep"

\* `item.get("github") and item["github"].strip() != ""`:
\* "keep", "drop", or "error" (AttributeError: item or the handle has no
\* such method).
KeepItem(item) ==
    IF item.t # "dict" THEN "error"
    ELSE IF ~Truthy(ItemGet(item, "github")) THEN "drop"
    ELSE IF item.github.t # "str" THEN "error"
    ELSE IF Strip(item.github.s) # << >> THEN "keep" ELSE "drop"

\* f"https://explorer.livepeer.org/accounts/{item['id']}/orchestrating"
AccountUrl(id) ==
    << "https://explorer.livepeer.org/accounts/", PyStr(id), "/orchestrating" >>

Raised(e) == [ok |-> FALSE, value |-> << >>, error |-> e]
Value(v) == [ok |-> TRUE, value |-> v, error |-> "none"]

\* The dict comprehension of fetch_vip_contributors.py over the items left.
RECURSIVE KeyedComprehension(_, _)
KeyedComprehension(elems, acc) ==
    IF elems = << >> THEN Value(acc)
    ELSE LET item == Head(elems)
             keep == KeepItem(item)
         IN  IF keep = "error" THEN Raised("AttributeError")
             ELSE IF keep = "drop" THEN KeyedComprehension(Tail(elems), acc)
             ELSE IF item.name = Missing \/ item.id = Missing
             THEN Raised("KeyError")
             ELSE KeyedComprehension(Tail(elems),
                      DictSet(acc, item.github,
                              [name |-> item.name, url |-> AccountUrl(item.id)]))

\* The list comprehension of get_vip_contributors.py over the items left.
RECURSIVE ListComprehension(_, _)
ListComprehension(elems, acc) ==
    IF elems = << >> THEN Value(acc)
    ELSE LET item == Head(elems)
             keep == KeepItem(item)
         IN  IF keep = "error" THEN Raised("AttributeError")
             ELSE IF keep = "drop" THEN ListComprehension(Tail(elems), acc)
             ELSE IF item.id = Missing THEN Raised("KeyError")
             ELSE ListComprehension(Tail(elems),
                      Append(acc, [github |-> item.github,
                                   profile_url |-> AccountUrl(item.id)]))

\* FilterData with the exceptions swallowed: whatever raises yields no entry.
FilterDataSwallowsErrors(s, data) ==
    LET it == Iterate(data)
        r == IF ~it.ok THEN Raised("TypeError")
             ELSE IF s = "fetch_vip" THEN KeyedComprehension(it.elems, << >>)
             ELSE ListComprehension(it.elems, << >>)
    IN  IF r.ok THEN r ELSE Value(<< >>)

\* `filtered_data = ...` of either script.
FilterData(s, data) ==
    LET it == Iterate(data)
    IN  IF ~it.ok THEN Raised("TypeError")
        ELSE IF s = "fetch_vip" THEN KeyedComprehension(it.elems, << >>)
        ELSE ListComprehension(it.elems, << >>)

NoError == [type |-> "none", at |-> "none"]

\* An unhandled exception or sys.exit(1): the run ends with a non-zero status.
Abort(e) ==
    /\ pc' = "exited"
    /\ exit_status' = "nonzero"
    /\ error' = [type |-> e, at |-> pc]

\* requests.get(...) and response.json() answer.
VipFetch ==
    /\ script \in {"fetch_vip", "get_vip"}
    /\ pc = "fetch"
    /\ network_calls' = Append(network_calls, "ens-data")
    /\ \E p \in Payloads : payload' = p
    /\ pc' = IF script = "get_vip" THEN "check" ELSE "filter"
    /\ UNCHANGED << script, exit_status, error, prior_file, file, filtered_data >>
    /\ UNCHANGED orgVars

\* requests.get(...) or response.json() raises.
VipFetchFails ==
    /\ script \in {"fetch_vip", "get_vip"}
    /\ pc = "fetch"
    /\ network_calls' = Append(network_calls, "ens-data")
    /\ Abort("RequestException")
    /\ UNCHANGED << script, prior_file, file, payload, filtered_data >>
    /\ UNCHANGED orgVars

\* get_vip_contributors.py: `if not isinstance(data, list): sys.exit(1)`.
VipCheckShape ==
    /\ script = "get_vip"
    /\ pc = "check"
    /\ IF IsList(payload)
       THEN pc' = "filter" /\ UNCHANGED << exit_status, error >>
       ELSE Abort("SystemExit")
    /\ UNCHANGED << script, prior_file, file, network_calls >>
    /\ UNCHANGED vipVars
    /\ UNCHANGED orgVars

\* The comprehension that builds filtered_data.
VipFilter ==
    /\ script \in {"fetch_vip", "get_vip"}
    /\ pc = "filter"
    /\ LET r == FilterData(script, payload)
       IN  IF r.ok
           THEN /\ filtered_data' = r.value
                /\ pc' = "save"
                /\ UNCHANGED << exit_status, error >>
           ELSE /\ Abort(r.error)
                /\ UNCHANGED filtered_data
    /\ UNCHANGED << script, prior_file, file, network_calls, payload >>
    /\ UNCHANGED orgVars

-----------------------------------------------------------------------------
(* save_to_json, the same in the three scripts. *)

\* The value the script hands to save_to_json.
SavedData == IF script = "org" THEN result ELSE filtered_data

\* os.makedirs(...) and open(filename, "w"): the file exists and is empty.
SaveOpen ==
    /\ pc = "save"
    /\ file' = FileTruncated
    /\ pc' = "dump"
    /\ UNCHANGED << script, exit_status, error, prior_file, network_calls >>
    /\ UNCHANGED vipVars
    /\ UNCHANGED orgVars

\* os.makedirs(...) or open(...) raises OSError.
SaveOpenFails ==
    /\ pc = "save"
    /\ Abort("OSError")
    /\ UNCHANGED << script, prior_file, file, network_calls >>
    /\ UNCHANGED vipVars
    /\ UNCHANGED orgVars

\* json.dump(data, f, indent=2), the closing of the file and the last print.
SaveDump ==
    /\ pc = "dump"
    /\ file' = FileJson(SavedData)
    /\ pc' = "exited"
    /\ exit_status' = "zero"
    /\ UNCHANGED << script, error, prior_file, network_calls >>
    /\ UNCHANGED vipVars
    /\ UNCHANGED orgVars

\* json.dump raises while writing: the file stays as open() left it.
SaveDumpFails ==
    /\ pc = "dump"
    /\ Abort("OSError")
    /\ UNCHANGED << script, prior_file, file, network_calls >>
    /\ UNCHANGED vipVars
    /\ UNCHANGED orgVars

-----------------------------------------------------------------------------
(* The GitHub organization (Remote Data Source A). *)

Logins == { "alice", "bob" }

\* What os.getenv can return: None, an empty string, a value.
EnvValues == { JNull, JStr(<< >>), JStr(<< "x" >>) }

\* Commit counts repo.get_commits(...).totalCount can answer.
WindowCounts == { 0, 1 }

\* The contributor objects a repository can list: two snapshots of alice
\* that differ in every descriptive field, and bob.  A list may hold the same
\* login more than once; the loop does not assume otherwise.
NamedUsers ==
    { [login |-> "alice", name |-> "Alice", avatar_url |-> "a1.png",
       location |-> "Paris", company |-> "Acme", bio |-> "dev",
       blog |-> "a.io", twitter_username |-> "al", contributions |-> 5],
      [login |-> "alice", name |-> "Alice L.", avatar_url |-> "a2.png",
       location |-> "Rome", company |-> "Beta", bio |-> "ops",
       blog |-> "l.io", twitter_username |-> "ali", contributions |-> 3],
      [login |-> "bob", name |-> "Bob", avatar_url |-> "b.png",
       location |-> "Oslo", company |-> "Acme", bio |-> "qa",
       blog |-> "b.io", twitter_username |-> "bb", contributions |-> 2] }

\* Every sequence of k repositories listing at most `budget` contributor
\* records together.
RECURSIVE RepoSeqs(_, _)
RepoSeqs(k, budget) ==
    IF k = 0 THEN { << >> }
    ELSE UNION { { << [fork |-> f, contributors |-> c] >> \o rest :
                     f \in BOOLEAN, c \in [1..n -> NamedUsers],
                     rest \in RepoSeqs(k - 1, budget - n) } :
                 n \in 0..budget }

Organizations == UNION { RepoSeqs(k, MaxRecords) : k \in 0..MaxRepos }

-----------------------------------------------------------------------------
(* scripts/get_org_contributors_info.py *)

\* ConfigError without the ORG_NAME check.
ConfigErrorTokenOnly(token, org) ==
    IF ~Truthy(token) THEN "GITHUB_TOKEN environment variable not set"
    ELSE "none"

\* Lines 18-21: the error the import raises, or "none".
ConfigError(token, org) ==
    IF ~Truthy(token) THEN "GITHUB_TOKEN environment variable not set"
    ELSE IF ~Truthy(org) THEN "ORG_NAME environment variable not set"
    ELSE "none"

\* ContributorInfo.__init__ that drops the org_member argument.
ContributorInfoNeverMember(contributor, org_member) ==
    [login |-> contributor.login, name |-> contributor.name,
     avatar_url |-> contributor.avatar_url, location |-> contributor.location,
     company |-> contributor.company, bio |-> contributor.bio,
     blog_url |-> contributor.blog,
     twitter_username |-> contributor.twitter_username,
     org_member |-> FALSE, contributions |-> 0,
     yearly_contributions |-> 0]

\* ContributorInfo.__init__
ContributorInfo(contributor, org_member) ==
    [login |-> contributor.login, name |-> contributor.name,
     avatar_url |-> contributor.avatar_url, location |-> contributor.location,
     company |-> contributor.company, bio |-> contributor.bio,
     blog_url |-> contributor.blog,
     twitter_username |-> contributor.twitter_username,
     org_member |-> org_member, contributions |-> 0,
     yearly_contributions |-> 0]

\* add_contributions that assigns instead of adding.
add_contributions_assigns(self, n) ==
    [self EXCEPT !.contributions = n]

\* ContributorInfo.add_contributions
add_contributions(self, n) ==
    [self EXCEPT !.contributions = self.contributions + n]

\* ContributorInfo.add_yearly_contributions
add_yearly_contributions(self, n) ==
    [self EXCEPT !.yearly_contributions = self.yearly_contributions + n]

\* ContributorInfo.to_dict
to_dict(self) ==
    [login |-> self.login, name |-> self.name, avatar_url |-> self.avatar_url,
     location |-> self.location, company |-> self.company, bio |-> self.bio,
     blog_url |-> self.blog_url, twitter_username |-> self.twitter_username,
     org_member |-> self.org_member, contributions |-> self.contributions,
     yearly_contributions |-> self.yearly_contributions]

\* get_public_source_repos without the fork filter.
SourceReposKeepsForks(repos) == repos

\* get_public_source_repos: `[repo for repo in repos if not repo.fork]`
SourceRepos(repos) == SelectSeq(repos, LAMBDA r : ~r.fork)

\* The repositories the loop of get_org_contributors_info visits:
\* `public_repos[:1]`.
ScannedRepos(repos) == SubSeq(repos, 1, IF Len(repos) < 1 THEN Len(repos) ELSE 1)

\* The creation without the `not in` guard: every record replaces the profile.
CreateAlways(info, contributor, members) ==
    DictSet(info, contributor.login,
            ContributorInfo(contributor, contributor.login \in members))

\* `if contributor.login not in contributors_info: contributors_info[...] = ...`
CreateIfNew(info, contributor, members) ==
    IF ~DictHas(info, contributor.login)
    THEN DictSet(info, contributor.login,
                 ContributorInfo(contributor, contributor.login \in members))
    ELSE info

\* The contributor the inner loop is at.
contributor == contributors[contributor_idx]

\* Lines 15-21.
OrgCheckConfig ==
    /\ script = "org"
    /\ pc = "config"
    /\ IF ConfigError(GITHUB_TOKEN, ORG_NAME) = "none"
       THEN pc' = "client" /\ UNCHANGED << exit_status, error >>
       ELSE Abort("ValueError")
    /\ UNCHANGED << script, prior_file, file, network_calls >>
    /\ UNCHANGED vipVars
    /\ UNCHANGED orgVars

\* Line 23: github_client = Github(GITHUB_TOKEN).
OrgConstructClient ==
    /\ script = "org"
    /\ pc = "client"
    /\ github_client' = TRUE
    /\ pc' = "members"
    /\ UNCHANGED << script, exit_status, error, prior_file, file, network_calls >>
    /\ UNCHANGED vipVars
    /\ UNCHANGED << GITHUB_TOKEN, ORG_NAME, remote_repos, public_members,
                    public_repos, repo_idx, contributors, contributor_idx,
                    contributors_info, window_commits, result >>

\* get_public_org_members(org_name)
OrgGetMembers ==
    /\ script = "org"
    /\ pc = "members"
    /\ network_calls' = Append(network_calls, "get_public_members")
    /\ \E m \in SUBSET Logins : public_members' = m
    /\ pc' = "repos"
    /\ UNCHANGED << script, exit_status, error, prior_file, file >>
    /\ UNCHANGED vipVars
    /\ UNCHANGED << GITHUB_TOKEN, ORG_NAME, github_client, remote_repos,
                    public_repos, repo_idx, contributors, contributor_idx,
                    contributors_info, window_commits, result >>

\* get_public_source_repos(org_name)
OrgGetRepos ==
    /\ script = "org"
    /\ pc = "repos"
    /\ network_calls' = Append(network_calls, "get_repos")
    /\ \E org \in Organizations :
          /\ remote_repos' = org
          /\ public_repos' = SourceRepos(org)
    /\ pc' = "loop_repo"
    /\ UNCHANGED << script, exit_status, error, prior_file, file >>
    /\ UNCHANGED vipVars
    /\ UNCHANGED << GITHUB_TOKEN, ORG_NAME, github_client, public_members,
                    repo_idx, contributors, contributor_idx,
                    contributors_info, window_commits, result >>

\* `for repo in public_repos[:1]`: the next repository and its
\* repo.get_contributors(), or the end of the loop.
OrgNextRepo ==
    /\ script = "org"
    /\ pc = "loop_repo"
    /\ IF repo_idx < Len(ScannedRepos(public_repos))
       THEN /\ repo_idx' = repo_idx + 1
            /\ network_calls' = Append(network_calls, "get_contributors")
            /\ contributors' = ScannedRepos(public_repos)[repo_idx + 1].contributors
            /\ contributor_idx' = 0
            /\ pc' = "loop_contributor"
       ELSE /\ pc' = "return"
            /\ UNCHANGED << repo_idx, network_calls, contributors,
                            contributor_idx >>
    /\ UNCHANGED << script, exit_status, error, prior_file, file >>
    /\ UNCHANGED vipVars
    /\ UNCHANGED << GITHUB_TOKEN, ORG_NAME, github_client, remote_repos,
                    public_members, public_repos, contributors_info,
                    window_commits, result >>

\* `for contributor in repo.get_contributors()`: the next contributor, or
\* the end of the inner loop.
OrgNextContributor ==
    /\ script = "org"
    /\ pc = "loop_contributor"
    /\ IF contributor_idx < Len(contributors)
       THEN contributor_idx' = contributor_idx + 1 /\ pc' = "create"
       ELSE pc' = "loop_repo" /\ UNCHANGED contributor_idx
    /\ UNCHANGED << script, exit_status, error, prior_file, file, network_calls >>
    /\ UNCHANGED vipVars
    /\ UNCHANGED << GITHUB_TOKEN, ORG_NAME, github_client, remote_repos,
                    public_members, public_repos, repo_idx, contributors,
                    contributors_info, window_commits, result >>

\* Lines 181-192.
OrgCreate ==
    /\ script = "org"
    /\ pc = "create"
    /\ contributors_info' =
          CreateIfNew(contributors_info, contributor, public_members)
    /\ pc' = "add"
    /\ UNCHANGED << script, exit_status, error, prior_file, file, network_calls >>
    /\ UNCHANGED vipVars
    /\ UNCHANGED << GITHUB_TOKEN, ORG_NAME, github_client, remote_repos,
                    public_members, public_repos, repo_idx, contributors,
                    contributor_idx, window_commits, result >>

\* Lines 194-196.
OrgAddContributions ==
    /\ script = "org"
    /\ pc = "add"
    /\ contributors_info' =
          DictSet(contributors_info, contributor.login,
                  add_contributions(DictGet(contributors_info, contributor.login),
                                    contributor.contributions))
    /\ pc' = "yearly"
    /\ UNCHANGED << script, exit_status, error, prior_file, file, network_calls >>
    /\ UNCHANGED vipVars
    /\ UNCHANGED << GITHUB_TOKEN, ORG_NAME, github_client, remote_repos,
                    public_members, public_repos, repo_idx, contributors,
                    contributor_idx, window_commits, result >>

\* Lines 197-202: get_contributions_between_dates and add_yearly_contributions.
OrgAddYearly ==
    /\ script = "org"
    /\ pc = "yearly"
    /\ network_calls' = Append(network_calls, "get_commits")
    /\ \E n \in WindowCounts :
          /\ window_commits' =
                [window_commits EXCEPT ![contributor.login] = @ + n]
          /\ contributors_info' =
                DictSet(contributors_info, contributor.login,
                        add_yearly_contributions(
                            DictGet(contributors_info, contributor.login), n))
    /\ pc' = "loop_contributor"
    /\ UNCHANGED << script, exit_status, error, prior_file, file >>
    /\ UNCHANGED vipVars
    /\ UNCHANGED << GITHUB_TOKEN, ORG_NAME, github_client, remote_repos,
                    public_members, public_repos, repo_idx, contributors,
                    contributor_idx, result >>

\* A call of the GitHub API raises (transport error, rate limit).
OrgApiFails ==
    /\ script = "org"
    /\ \/ pc \in { "members", "repos", "yearly" }
       \/ pc = "loop_repo" /\ repo_idx < Len(ScannedRepos(public_repos))
    /\ network_calls' =
          Append(network_calls,
                 CASE pc = "members" -> "get_public_members"
                   [] pc = "repos" -> "get_repos"
                   [] pc = "yearly" -> "get_commits"
                   [] OTHER -> "get_contributors")
    /\ Abort("GithubException")
    /\ UNCHANGED << script, prior_file, file >>
    /\ UNCHANGED vipVars
    /\ UNCHANGED orgVars

\* Line 205: the list of to_dict() of the values of contributors_info.
OrgReturn ==
    /\ script = "org"
    /\ pc = "return"
    /\ result' = [i \in 1..Len(contributors_info) |->
                     to_dict(contributors_info[i].value)]
    /\ pc' = "save"
    /\ UNCHANGED << script, exit_status, error, prior_file, file, network_calls >>
    /\ UNCHANGED vipVars
    /\ UNCHANGED << GITHUB_TOKEN, ORG_NAME, github_client, remote_repos,
                    public_members, public_repos, repo_idx, contributors,
                    contributor_idx, contributors_info, window_commits >>

-----------------------------------------------------------------------------
(* The specification: one run of one script. *)

Scripts == { "org", "fetch_vip", "get_vip" }

Init ==
    /\ script \in Scripts
    /\ pc = IF script = "org" THEN "config" ELSE "fetch"
    /\ exit_status = "running"
    /\ error = NoError
    /\ prior_file \in { FileAbsent, FilePrior }
    /\ file = prior_file
    /\ network_calls = << >>
    /\ payload = JNull
    /\ filtered_data = << >>
    /\ GITHUB_TOKEN \in IF script = "org" THEN EnvValues ELSE { JNull }
    /\ ORG_NAME \in IF script = "org" THEN EnvValues ELSE { JNull }
    /\ github_client = FALSE
    /\ remote_repos = << >>
    /\ public_members = { }
    /\ public_repos = << >>
    /\ repo_idx = 0
    /\ contributors = << >>
    /\ contributor_idx = 0
    /\ contributors_info = << >>
    /\ window_commits = [l \in Logins |-> 0]
    /\ result = << >>

Next ==
    \/ VipFetch
    \/ VipFetchFails
    \/ VipCheckShape
    \/ VipFilter
    \/ SaveOpen
    \/ SaveOpenFails
    \/ SaveDump
    \/ SaveDumpFails
    \/ OrgCheckConfig
    \/ OrgConstructClient
    \/ OrgGetMembers
    \/ OrgGetRepos
    \/ OrgNextRepo
    \/ OrgNextContributor
    \/ OrgCreate
    \/ OrgAddContributions
    \/ OrgAddYearly
    \/ OrgApiFails
    \/ OrgReturn

Spec == Init /\ [][Next]_vars

-----------------------------------------------------------------------------
(* Vocabulary of the properties. *)

Range(f) == { f[i] : i \in DOMAIN f }

\* The contributor records of a sequence of repositories, in order.
RECURSIVE Flatten(_)
Flatten(repos) ==
    IF repos = << >> THEN << >>
    ELSE Head(repos).contributors \o Flatten(Tail(repos))

\* The sum of the raw contribution counts of `login` in `records`.
RECURSIVE SumFor(_, _)
SumFor(records, login) ==
    IF records = << >> THEN 0
    ELSE (IF Head(records).login = login THEN Head(records).contributions ELSE 0)
         + SumFor(Tail(records), login)

\* The non-fork (fork) repositories of the organization, in remote order.
RECURSIVE ReposWithFork(_, _)
ReposWithFork(repos, flag) ==
    IF repos = << >> THEN << >>
    ELSE IF Head(repos).fork = flag
         THEN << Head(repos) >> \o ReposWithFork(Tail(repos), flag)
         ELSE ReposWithFork(Tail(repos), flag)

LoginsOf(records) == { r.login : r \in Range(records) }

\* get_org_contributors_info has returned.
OrgReturned == script = "org" /\ pc \in { "save", "dump" }

\* The repositories were listed.
ReposListed == script = "org" /\ "get_repos" \in Range(network_calls) /\ error.at # "repos"

\* The records for which lines 181-192 have run.
CreatedRecords ==
    Flatten(SubSeq(ScannedRepos(public_repos), 1, repo_idx - 1))
        \o SubSeq(contributors, 1,
                  IF pc = "create" THEN contributor_idx - 1 ELSE contributor_idx)

\* The first record of `login` in `records`.
FirstRecord(records, login) ==
    records[CHOOSE i \in 1..Len(records) :
               /\ records[i].login = login
               /\ \A j \in 1..(i - 1) : records[j].login # login]

UniqueKeys(d) == \A i, j \in 1..Len(d) : d[i].key = d[j].key => i = j

UniqueLogins(list) ==
    \A i, j \in 1..Len(list) : list[i].login = list[j].login => i = j

\* The handle has a character that is not whitespace.
NonBlankHandle(item) ==
    /\ item.github \notin { Missing, JNull }
    /\ \E i \in 1..Len(item.github.s) : item.github.s[i] # " "

VipScript == script \in { "fetch_vip", "get_vip" }

\* The payload has been fetched.
PayloadFetched == VipScript /\ pc # "fetch" /\ error.at # "fetch"

\* The comprehension has built filtered_data.
Filtered == VipScript /\ pc \in { "save", "dump" }

CountOf(seq, x) == Cardinality({ i \in 1..Len(seq) : seq[i] = x })

\* Every step before the sink has run and none has raised.
PipelineSucceeded ==
    /\ error.at \in { "none", "save", "dump" }
    /\ VipScript =>
          /\ network_calls = << "ens-data" >>
          /\ payload.t \in { "array", "object", "str" }
          /\ script = "get_vip" => payload.t = "array"
          /\ payload.t = "object" => payload.keys = << >>
          /\ payload.t = "str" => payload.s = << >>
          /\ payload.t = "array" =>
                \A i \in 1..Len(payload.elems) :
                    NonBlankHandle(payload.elems[i]) =>
                        /\ payload.elems[i].id # Missing
                        /\ script = "fetch_vip" => payload.elems[i].name # Missing
    /\ script = "org" =>
          /\ GITHUB_TOKEN \notin { JNull, JStr(<< >>) }
          /\ ORG_NAME \notin { JNull, JStr(<< >>) }
          /\ github_client
          /\ CountOf(network_calls, "get_public_members") = 1
          /\ CountOf(network_calls, "get_repos") = 1
          /\ CountOf(network_calls, "get_contributors") = repo_idx
          /\ contributor_idx = Len(contributors)
          /\ CountOf(network_calls, "get_commits") = Len(CreatedRecords)
          /\ LoginsOf(CreatedRecords) = { result[i].login : i \in 1..Len(result) }

-----------------------------------------------------------------------------
(* Properties. *)

\* C1: when get_org_contributors_info returns, every login that appears in
\* a public non-fork repository of the organization has an entry in the
\* returned list, whose `contributions` is the sum of its raw counts over all
\* those repositories and whose `yearly_contributions` is the sum of the
\* in-window commit counts the remote answered for it.
C1AllReposSummed ==
    OrgReturned =>
        \A l \in LoginsOf(Flatten(ReposWithFork(remote_repos, FALSE))) :
            \E i \in 1..Len(result) :
                /\ result[i].login = l
                /\ result[i].contributions =
                       SumFor(Flatten(ReposWithFork(remote_repos, FALSE)), l)
                /\ result[i].yearly_contributions = window_commits[l]

\* C2, as stated: every login of the organization has a merged profile whose
\* source_contributions is the sum of its counts in non-fork repositories and
\* whose fork_contributions is the sum of its counts in fork repositories.
C2SplitByForkFlag ==
    OrgReturned =>
        \A l \in LoginsOf(Flatten(remote_repos)) :
            \E i \in 1..Len(result) :
                /\ result[i].login = l
                /\ result[i].contributions =
                       SumFor(Flatten(ReposWithFork(remote_repos, FALSE)), l)
                /\ "fork_contributions" \in DOMAIN result[i]
                /\ result[i].fork_contributions =
                       SumFor(Flatten(ReposWithFork(remote_repos, TRUE)), l)

\* C2, amended: fork repositories are dropped before the aggregation.
\* public_repos is the organization's non-fork repositories in remote order,
\* no profile has a fork_contributions counter, and the `contributions` of a
\* profile holds nothing but counts of non-fork repositories: it never
\* exceeds the login's non-fork sum.
C2ForksExcluded ==
    ReposListed =>
        /\ public_repos = ReposWithFork(remote_repos, FALSE)
        /\ \A i \in 1..Len(contributors_info) :
              contributors_info[i].value.contributions
                  <= SumFor(Flatten(ReposWithFork(remote_repos, FALSE)),
                            contributors_info[i].key)
        /\ \A i \in 1..Len(result) :
              /\ "fork_contributions" \notin DOMAIN result[i]
              /\ result[i].contributions
                     <= SumFor(Flatten(ReposWithFork(remote_repos, FALSE)),
                               result[i].login)

\* alice has 5 in a non-fork repository and 3 in a fork: contributions = 5.
C2Witness ==
    /\ OrgReturned
    /\ Len(remote_repos) = 2
    /\ ~remote_repos[1].fork /\ remote_repos[2].fork
    /\ SumFor(remote_repos[1].contributors, "alice") = 5
    /\ SumFor(remote_repos[2].contributors, "alice") = 3
    /\ Len(result) = 1 /\ result[1].contributions = 5

\* C3: in both VIP scripts, once the payload is fetched and is not an array,
\* the run does not end with status zero and the output file stays as it was.
C3NonArrayRejected ==
    (PayloadFetched /\ ~IsList(payload)) =>
        /\ file = prior_file
        /\ exit_status # "zero"
        /\ pc = "exited" => exit_status = "nonzero"

\* C4, as stated: a run that fails at any step leaves a previously existing
\* output file as it was.
C4FailedRunKeepsFile ==
    (exit_status = "nonzero" /\ prior_file = FilePrior) => file = prior_file

\* C4, amended: the sink is entered, and the file touched, only after every
\* earlier step has succeeded; a run that fails anywhere but inside
\* json.dump leaves the file as it was, and a run that fails inside json.dump
\* leaves it truncated.
C4SinkOnlyAfterSuccess ==
    /\ (pc \in { "save", "dump" } \/ file # prior_file) => PipelineSucceeded
    /\ (exit_status = "nonzero" /\ error.at # "dump") => file = prior_file
    /\ (exit_status = "nonzero" /\ error.at = "dump") => file = FileTruncated

\* A run with an existing file fails in the comprehension.
C4Witness ==
    /\ exit_status = "nonzero"
    /\ error.at = "filter"
    /\ prior_file = FilePrior
    /\ file = FilePrior

C6ConfigCheckedFirst ==
    (script = "org" /\ (GITHUB_TOKEN \in { JNull, JStr(<< >>) }
                        \/ ORG_NAME \in { JNull, JStr(<< >>) })) =>
        /\ ~github_client
        /\ network_calls = << >>
        /\ file = prior_file
        /\ pc \in { "config", "exited" }
        /\ pc = "exited" => exit_status = "nonzero" /\ error.type = "ValueError"

\* The token is set, ORG_NAME is empty, and the run has aborted.
C6Witness ==
    /\ script = "org"
    /\ Truthy(GITHUB_TOKEN)
    /\ ORG_NAME = JStr(<< >>)
    /\ exit_status = "nonzero"

\* C7: in the keyed variant, for every array payload the comprehension does
\* not raise, and the output maps the handle of every record with a
\* non-blank handle to its name (null when it has none) and to the URL built
\* from its id.
C7KeyedOutput ==
    (script = "fetch_vip" /\ PayloadFetched /\ IsList(payload) /\ pc # "filter") =>
        /\ error.at # "filter"
        /\ \A i \in 1..Len(payload.elems) :
              NonBlankHandle(payload.elems[i]) =>
                  \E k \in 1..Len(filtered_data) :
                      \E e \in { x \in Range(payload.elems) :
                                   x.github = payload.elems[i].github } :
                          /\ filtered_data[k].key = e.github
                          /\ filtered_data[k].value.name =
                                 (IF e.name = Missing THEN JNull ELSE e.name)
                          /\ filtered_data[k].value.url = AccountUrl(e.id)

\* C8: the descriptive fields and the org_member flag of every profile are
\* those of the first record of its login in iteration order, whatever
\* records of that login came later.
C8FirstSeenWins ==
    script = "org" =>
        \A i \in 1..Len(contributors_info) :
            LET profile == contributors_info[i].value
                first == FirstRecord(CreatedRecords, contributors_info[i].key)
            IN  /\ profile.login = first.login
                /\ profile.name = first.name
                /\ profile.avatar_url = first.avatar_url
                /\ profile.location = first.location
                /\ profile.company = first.company
                /\ profile.bio = first.bio
                /\ profile.blog_url = first.blog
                /\ profile.twitter_username = first.twitter_username
                /\ profile.org_member = (first.login \in public_members)

\* Two snapshots of alice were folded: the first one's fields, both counts.
C8Witness ==
    /\ OrgReturned
    /\ Len(contributors) = 2
    /\ contributors[1].login = "alice" /\ contributors[1].name = "Alice"
    /\ contributors[2].login = "alice" /\ contributors[2].name = "Alice L."
    /\ Len(result) = 1
    /\ result[1].name = "Alice"
    /\ result[1].location = "Paris"
    /\ result[1].contributions = 8

\* C9: org_member of every profile is true exactly when the login is in the
\* public-members list, which is fetched once and before any contributor
\* list.
C9OrgMemberFlag ==
    script = "org" =>
        /\ \A i \in 1..Len(contributors_info) :
              contributors_info[i].value.org_member
                  <=> contributors_info[i].key \in public_members
        /\ \A i \in 1..Len(result) :
              result[i].org_member <=> result[i].login \in public_members
        /\ CountOf(network_calls, "get_public_members") <= 1
        /\ \A i \in 1..Len(network_calls) :
              network_calls[i] \in { "get_contributors", "get_commits" } =>
                  \E j \in 1..(i - 1) : network_calls[j] = "get_public_members"

\* A member and a non-member in one returned list.
C9Witness ==
    /\ OrgReturned
    /\ public_members = { "bob" }
    /\ Len(result) = 2
    /\ result[1].login = "alice" /\ ~result[1].org_member
    /\ result[2].login = "bob" /\ result[2].org_member

\* One step of the organization script, as C10 reads it.
C10Step ==
    script = "org" =>
        /\ UniqueKeys(contributors_info')
        /\ UniqueLogins(result')
        /\ \A i \in 1..Len(contributors_info') :
              LET k == contributors_info'[i].key
                  new == contributors_info'[i].value
              IN  IF DictHas(contributors_info, k)
                  THEN /\ new.contributions
                             >= DictGet(contributors_info, k).contributions
                       /\ new.yearly_contributions
                             >= DictGet(contributors_info, k).yearly_contributions
                  ELSE new.contributions = 0 /\ new.yearly_contributions = 0

\* C10: at every step there is at most one profile per login, in the mapping
\* and in the returned list; a profile's counters are zero when it is
\* created and never decrease afterwards.
C10OneProfileCountersGrow == [][C10Step]_vars

\* The second record of alice is being folded into the one profile the first
\* one created.
C10Witness ==
    /\ script = "org"
    /\ pc = "add"
    /\ contributor_idx = 2
    /\ contributors[1].login = "alice"
    /\ contributors[2].login = "alice"
    /\ Len(contributors_info) = 1
    /\ contributors_info[1].value.contributions = contributors[1].contributions

=============================================================================
